---- MODULE Spec2Model ----
(***************************************************************************)
(* Model of src/main.rs of rust-wordle-solver: the per-letter game state,  *)
(* the feedback classifier compute_bucket, the dictionary reduction        *)
(* (is_word_valid / reduce_dictionary), the two suggestion lists of        *)
(* get_suggestions and the line loop of interactive.                       *)
(*                                                                         *)
(* A word is a sequence of one-character strings; offsets are 0-based as   *)
(* in the source, so the character at offset p of w is w[p + 1].           *)
(***************************************************************************)
EXTENDS Integers, Sequences, FiniteSets, TLC

\* ---------------------------------------------------------------- bounds
\* Number of input lines the loop of interactive reads in a behaviour.
MaxRounds == 2
\* Width in bits at which usize is modelled (Rust's narrowest usize).
UsizeBits == 16

\* ------------------------------------------------------------- constants
\* main keeps the lines of words.txt of exactly this many characters.
WordLen == 5

\* ---------------------------------------------------------------- inputs
crane == <<"c", "r", "a", "n", "e">>
speed == <<"s", "p", "e", "e", "d">>
build == <<"b", "u", "i", "l", "d">>
abide == <<"a", "b", "i", "d", "e">>
geese == <<"g", "e", "e", "s", "e">>
erase == <<"e", "r", "a", "s", "e">>
level == <<"l", "e", "v", "e", "l">>
cranes == <<"c", "r", "a", "n", "e", "s">>
bud == <<"b", "u", "d">>

\* Dictionaries main can load: lists of lowercase words of WordLen letters.
Dicts == { <<crane, speed, build, abide>>, <<geese, erase, level, build>> }

\* Words typed as the guess of a well-formed line.
Guesses == { speed, crane }
\* Guesses of the wrong length (nothing in interactive checks the length).
BadGuesses == { cranes, bud }

\* Characters of a typed pattern: '-', '+' and one "any other character".
MarkChars == { "-", "+", "x" }
AllPatterns == [1..WordLen -> MarkChars]
marked(m) == Cardinality({ i \in 1..Len(m) : m[i] # "-" })
\* The patterns typed on a well-formed line: with speed at most two marks
\* other than '-', with crane at most one.
Patterns(w) ==
  { m \in AllPatterns : marked(m) <= (IF w = speed THEN 2 ELSE 1) }
\* Patterns of the wrong length.
BadPatterns == { <<"-", "+", "x">>, <<"-", "-", "-", "-", "-", "+">> }

Range(s) == { s[i] : i \in 1..Len(s) }
Min(a, b) == IF a < b THEN a ELSE b

Alphabet ==
  UNION { Range(w) : w \in Guesses \cup BadGuesses }
    \cup UNION { UNION { Range(d[i]) : i \in 1..Len(d) } : d \in Dicts }

\* ----------------------------------------------------------------- types
\* enum LetterState; a letter with no entry in the map reads as Unknown.
Unknown == [kind |-> "Unknown", wrong |-> {}, right |-> {}]
NotPresent == [kind |-> "NotPresent", wrong |-> {}, right |-> {}]
Somewhere(wrong_positions, right_positions) ==
  [kind |-> "Somewhere", wrong |-> wrong_positions, right |-> right_positions]

\* GameState = HashMap<char, LetterState>; HashMap::new() is the empty map.
EmptyState == [chr \in Alphabet |-> Unknown]
keys(st) == { chr \in Alphabet : st[chr].kind # "Unknown" }

VARIABLES state, dict, line, res, pc, sugg1, sugg2, rounds, target
vars == <<state, dict, line, res, pc, sugg1, sugg2, rounds, target>>

\* ------------------------------------------------------------ classifier
\* compute_bucket: zip of the two words, one Mark per position; a guess
\* letter that is not in place is Unpositioned when word.find finds it
\* anywhere in word, NotPresent otherwise.
compute_bucket(guess, word) ==
  [i \in 1..Min(Len(guess), Len(word)) |->
    IF guess[i] = word[i] THEN "Positioned"
    ELSE IF \E j \in 1..Len(word) : word[j] = guess[i] THEN "Unpositioned"
    ELSE "NotPresent"]

\* --------------------------------------------------------- state update
\* update_entry with the two position sets of a new Somewhere entry swapped.
update_entry_swapped(entry, offset, mark) ==
  CASE entry.kind = "Unknown" /\ mark = "NotPresent" -> NotPresent
    [] entry.kind = "Unknown" /\ mark = "Unpositioned" -> Somewhere({}, {offset})
    [] entry.kind = "Unknown" /\ mark = "Positioned" -> Somewhere({offset}, {})
    [] entry.kind = "Somewhere" /\ mark = "Unpositioned" ->
         Somewhere(entry.wrong \cup {offset}, entry.right)
    [] entry.kind = "Somewhere" /\ mark = "Positioned" ->
         Somewhere(entry.wrong, entry.right \cup {offset})
    [] OTHER -> [kind |-> "Invalid response", wrong |-> {}, right |-> {}]

\* One iteration of the for loop of update_state on ((offset, chr), mark):
\* the new entry of chr, or "Invalid response" for the arm `_`.
update_entry(entry, offset, mark) ==
  CASE entry.kind = "Unknown" /\ mark = "NotPresent" -> NotPresent
    [] entry.kind = "Unknown" /\ mark = "Unpositioned" -> Somewhere({offset}, {})
    [] entry.kind = "Unknown" /\ mark = "Positioned" -> Somewhere({}, {offset})
    [] entry.kind = "Somewhere" /\ mark = "Unpositioned" ->
         Somewhere(entry.wrong \cup {offset}, entry.right)
    [] entry.kind = "Somewhere" /\ mark = "Positioned" ->
         Somewhere(entry.wrong, entry.right \cup {offset})
    [] OTHER -> [kind |-> "Invalid response", wrong |-> {}, right |-> {}]

\* The loop of update_state from offset on: the map is updated in place
\* entry by entry, and the first "Invalid response" returns Err at once.
RECURSIVE update_from(_, _, _, _)
update_from(st, word, marks, offset) ==
  IF offset >= Min(Len(word), Len(marks))
  THEN [state |-> st, result |-> "Ok"]
  ELSE LET chr == word[offset + 1]
           new == update_entry(st[chr], offset, marks[offset + 1])
       IN IF new.kind = "Invalid response"
          THEN [state |-> st, result |-> "Err"]
          ELSE update_from([st EXCEPT ![chr] = new], word, marks, offset + 1)

update_state(st, word, marks) == update_from(st, word, marks, 0)

\* ------------------------------------------------------------ reduction
count(word, chr) == Cardinality({ i \in 1..Len(word) : word[i] = chr })

\* `!n` on a usize is the bitwise complement.
usize_not(n) == (2 ^ UsizeBits - 1) - n

\* The same test with `!=` in place of `!` ... `==`.
count_mismatch_ne(entry, word, chr) ==
  count(word, chr) # Cardinality(entry.wrong) + Cardinality(entry.right)

\* The condition of the second `if` of the Somewhere arm, as written:
\* `!count == wrong_positions.len() + right_positions.len()`.
count_mismatch(entry, word, chr) ==
  usize_not(count(word, chr)) = Cardinality(entry.wrong) + Cardinality(entry.right)

\* is_word_valid returns true: every key of the map passes its arm. An
\* offset beyond the word cannot be passed (string_chars[p] panics).
is_word_valid(st, word) ==
  \A chr \in keys(st) :
    IF st[chr].kind = "Somewhere"
    THEN /\ \A p \in st[chr].wrong : p < Len(word) /\ word[p + 1] # chr
         /\ ~ count_mismatch(st[chr], word, chr)
         /\ \A p \in st[chr].right : p < Len(word) /\ word[p + 1] = chr
    ELSE chr \notin Range(word)

\* is_word_valid can panic: keys and positions are visited in the hash
\* order of the run, and some order indexes string_chars out of bounds
\* before any `return false`.
valid_can_panic(st, word) ==
  \E chr \in keys(st) :
    /\ st[chr].kind = "Somewhere"
    /\ \/ \E p \in st[chr].wrong : p >= Len(word)
       \/ /\ \A p \in st[chr].wrong : p < Len(word) /\ word[p + 1] # chr
          /\ ~ count_mismatch(st[chr], word, chr)
          /\ \E p \in st[chr].right : p >= Len(word)

\* is_word_valid can return false: some order reaches a failing test
\* before any out-of-bounds index.
valid_can_fail(st, word) ==
  \E chr \in keys(st) :
    IF st[chr].kind = "Somewhere"
    THEN \/ \E p \in st[chr].wrong : p < Len(word) /\ word[p + 1] = chr
         \/ /\ \A p \in st[chr].wrong : p < Len(word)
            /\ \/ count_mismatch(st[chr], word, chr)
               \/ \E p \in st[chr].right : p < Len(word) /\ word[p + 1] # chr
    ELSE chr \in Range(word)

is_word_relevant(st, word) ==
  \A i \in 1..Len(word) : st[word[i]].kind = "Unknown"

\* reduce_dictionary that loses the last word it keeps.
reduce_dictionary_short(st, d) ==
  LET kept == SelectSeq(d, LAMBDA word : is_word_valid(st, word))
  IN SubSeq(kept, 1, Len(kept) - 1)

\* reduce_dictionary: the filter of dict by is_word_valid, order kept.
reduce_dictionary(st, d) ==
  SelectSeq(d, LAMBDA word : is_word_valid(st, word))

reduce_can_panic(st, d) == \E i \in 1..Len(d) : valid_can_panic(st, d[i])
reduce_can_return(st, d) ==
  \A i \in 1..Len(d) : is_word_valid(st, d[i]) \/ valid_can_fail(st, d[i])

\* get_suggestions without the is_word_relevant filter on the first list.
get_suggestions_unfiltered(st, d) ==
  [top5 |-> Range(d),
   top5valid |-> { w \in Range(d) : is_word_valid(st, w) }]

\* get_suggestions: the words of the two lists it returns. Their order is
\* that of the sort by guess_probabilities, a table the source leaves
\* undefined (lines 234-240), so the model keeps the lists' elements.
get_suggestions(st, d) ==
  [top5 |-> { w \in Range(d) : is_word_relevant(st, w) },
   top5valid |-> { w \in Range(d) : is_word_valid(st, w) }]

\* ---------------------------------------------------------------- driver
\* The closure of interactive that turns the typed pattern into marks.
update_marks(marks) ==
  [i \in 1..Len(marks) |->
    CASE marks[i] = "-" -> "NotPresent"
      [] marks[i] = "+" -> "Unpositioned"
      [] OTHER -> "Positioned"]

\* What a player types for a feedback pattern.
typed(bucket) ==
  [i \in 1..Len(bucket) |->
    CASE bucket[i] = "NotPresent" -> "-"
      [] bucket[i] = "Unpositioned" -> "+"
      [] OTHER -> "x"]

\* The lines stdin can deliver, as the fields of line_content.split(' ').
Lines ==
  UNION { { <<w, m>> : m \in Patterns(w) } : w \in Guesses }
    \cup { <<w, m>> : w \in BadGuesses \cup { crane }, m \in BadPatterns }
    \cup { <<crane>> }

NoTarget == << >>

\* main: the dictionary is loaded, the state is HashMap::new(), and
\* interactive prints the suggestions once before it reads a line.
Init ==
  /\ dict \in Dicts
  /\ state = EmptyState
  /\ line = << >>
  /\ res = "none"
  /\ pc = "loop"
  /\ sugg1 = get_suggestions(EmptyState, dict).top5
  /\ sugg2 = get_suggestions(EmptyState, dict).top5valid
  /\ rounds = 0
  /\ target = NoTarget

\* A line with no space: word_marks[1] is out of bounds and the loop panics.
NoPattern(word_marks) ==
  /\ pc = "loop" /\ rounds < MaxRounds
  /\ Len(word_marks) < 2
  /\ line' = word_marks
  /\ pc' = "panicked"
  /\ rounds' = rounds + 1
  /\ UNCHANGED <<state, dict, res, sugg1, sugg2, target>>

\* One pass of the loop body that runs to its end: the state is updated
\* (Ok or Err), then get_suggestions is computed on the updated state.
Round(word_marks) ==
  /\ pc = "loop" /\ rounds < MaxRounds
  /\ Len(word_marks) >= 2
  /\ LET u == update_state(state, word_marks[1], update_marks(word_marks[2]))
         sugg == get_suggestions(u.state, dict)
     IN /\ reduce_can_return(u.state, dict) = TRUE
        /\ state' = u.state
        /\ res' = u.result
        /\ sugg1' = sugg.top5
        /\ sugg2' = sugg.top5valid
  /\ line' = word_marks
  /\ rounds' = rounds + 1
  /\ UNCHANGED <<dict, pc, target>>

\* One pass of the loop body in which is_word_valid panics inside
\* get_suggestions, after the state was updated.
RoundPanic(word_marks) ==
  /\ pc = "loop" /\ rounds < MaxRounds
  /\ Len(word_marks) >= 2
  /\ LET u == update_state(state, word_marks[1], update_marks(word_marks[2]))
     IN /\ reduce_can_panic(u.state, dict) = TRUE
        /\ state' = u.state
        /\ res' = u.result
  /\ line' = word_marks
  /\ pc' = "panicked"
  /\ rounds' = rounds + 1
  /\ UNCHANGED <<dict, sugg1, sugg2, target>>

Next ==
  /\ pc = "loop" /\ rounds < MaxRounds
  /\ \E word_marks \in Lines :
       \/ NoPattern(word_marks)
       \/ Round(word_marks)
       \/ RoundPanic(word_marks)

Spec == Init /\ [][Next]_vars

\* ------------------------------------------------- play against a target
\* The same loop when the player holds a word of the dictionary and types,
\* for each guess, the pattern compute_bucket gives against that word.
GenuineGuesses == Guesses \cup { geese, abide, build }

InitGenuine ==
  /\ dict \in Dicts
  /\ target \in Range(dict)
  /\ state = EmptyState
  /\ line = << >>
  /\ res = "none"
  /\ pc = "loop"
  /\ sugg1 = get_suggestions(EmptyState, dict).top5
  /\ sugg2 = get_suggestions(EmptyState, dict).top5valid
  /\ rounds = 0

GenuineRound(guess) == Round(<<guess, typed(compute_bucket(guess, target))>>)

NextGenuine ==
  /\ pc = "loop" /\ rounds < MaxRounds
  /\ \E guess \in GenuineGuesses : GenuineRound(guess)

SpecGenuine == InitGenuine /\ [][NextGenuine]_vars

\* ================================================================ claims
\* The guess and the marks of the line the loop read last.
used_word == line[1]
marks == update_marks(line[2])
WellFormed == Len(line) = 2 /\ Len(line[1]) = WordLen /\ Len(line[2]) = WordLen
\* The words of d that give the pattern p for the guess g.
Consistent(g, p, d) == SelectSeq(d, LAMBDA w : compute_bucket(g, w) = p)
CandidateLists == Dicts \cup { << >>, <<level, crane, level>>, <<build>> }

\* C1: after the first round, from the empty state, the reduced dictionary
\* is exactly the words of the dictionary whose pattern for the guess is
\* the pattern typed, in their order (stated for the accepted lines).
C1_ExactFilter ==
  (rounds = 1 /\ pc = "loop" /\ WellFormed /\ res = "Ok")
    => reduce_dictionary(state, dict) = Consistent(used_word, marks, dict)

\* C2: for a guess classified against a target, no letter has more
\* non-Absent marks in the guess than it has occurrences in the target.
C2_RepeatedLetters ==
  (rounds >= 1 /\ target # NoTarget)
    => LET bucket == compute_bucket(used_word, target)
       IN \A chr \in Alphabet :
            Cardinality({ i \in 1..Len(bucket) :
                          used_word[i] = chr /\ bucket[i] # "NotPresent" })
              <= count(target, chr)

\* C3: in every round that completes, with Ok or with Err, the words
\* reduce_dictionary keeps after the round are among those it kept before
\* the round, and are words of the dictionary.
C3_NeverGrows ==
  [][pc' = "loop" =>
       /\ Range(reduce_dictionary(state', dict'))
            \subseteq Range(reduce_dictionary(state, dict))
       /\ Range(reduce_dictionary(state', dict')) \subseteq Range(dict')]_vars

\* C3 witness: a second round was rejected and part of the dictionary is left.
C3_Witness ==
  /\ rounds = 2 /\ pc = "loop" /\ res = "Err" /\ WellFormed
  /\ Len(reduce_dictionary(state, dict)) > 0
  /\ Len(reduce_dictionary(state, dict)) < Len(dict)

\* C4: a line that is not `<word> <pattern>` with both of the word length
\* does not panic the loop.
C4_NoPanic ==
  (rounds >= 1 /\ ~ WellFormed) => pc = "loop"

\* C5: after a round fed a guess and a pattern that no word of the
\* dictionary gives, the list of possible answers is empty (stated for the
\* accepted lines).
C5_Stuck ==
  (rounds >= 1 /\ pc = "loop" /\ WellFormed /\ res = "Ok"
     /\ Consistent(used_word, marks, dict) = << >>)
    => sugg2 = {}

\* C6 as stated: the first list holds every word of the dictionary and the
\* second the words reduce_dictionary keeps.
C6_WholeVocabulary ==
  pc = "loop" =>
    /\ sugg1 = Range(dict)
    /\ sugg2 = Range(reduce_dictionary(state, dict))

\* C6 amended: the first list holds the words of the dictionary none of
\* whose letters has an entry in the game state, and the second the words
\* reduce_dictionary keeps.
C6_FreshLetterWords ==
  pc = "loop" =>
    /\ sugg1 = { w \in Range(dict) : Range(w) \cap keys(state) = {} }
    /\ sugg2 = Range(reduce_dictionary(state, dict))

\* C6 witness: a word that is still a possible answer is missing from the
\* first list.
C6_Witness ==
  /\ pc = "loop" /\ rounds >= 1 /\ WellFormed /\ res = "Ok"
  /\ \E w \in Range(dict) : w \in sugg2 /\ w \notin sugg1
  /\ sugg1 # {}

\* C7: reducing a reduced list again, in the same game state, gives the
\* same list.
C7_Idempotent ==
  pc = "loop" =>
    \A S \in CandidateLists :
      reduce_dictionary(state, reduce_dictionary(state, S))
        = reduce_dictionary(state, S)

\* C7 witness: the state drops some words of a list and keeps others.
C7_Witness ==
  /\ pc = "loop" /\ rounds >= 1 /\ WellFormed
  /\ \E S \in CandidateLists :
       /\ reduce_dictionary(state, S) # << >>
       /\ reduce_dictionary(state, S) # S

\* C8: the pattern compute_bucket gives against the target is accepted in
\* every round.
C8_GenuineAccepted ==
  (rounds >= 1 /\ target # NoTarget) => res = "Ok"

\* C9: fed the patterns compute_bucket gives against the target, the
\* target is kept by reduce_dictionary after every round.
C9_TargetKept ==
  target # NoTarget => target \in Range(reduce_dictionary(state, dict))

\* C9 witness: a round was rejected and the target alone is left.
C9_Witness ==
  /\ target # NoTarget /\ res = "Err"
  /\ reduce_dictionary(state, dict) = <<target>>

\* C10: a round whose update_state returns Err leaves the game state as it
\* was before the round.
C10_ErrKeepsState ==
  [][(rounds' = rounds + 1 /\ res' = "Err") => state' = state]_vars

====
